---- MODULE Spec2Model ----
(***************************************************************************)
(* Doctor-appointment backend: the Stripe webhook and checkout endpoints   *)
(* of the server (both revisions kept in the repository), the admin        *)
(* controller (addDoctor, loginAdmin, allDoctors, appointmentsAdmin,       *)
(* appointmentCancel, adminDashboard), over the Appointment / Doctor /     *)
(* User collections.                                                       *)
(*                                                                         *)
(* A handler that awaits several database or network calls is one action   *)
(* per await point, so that other requests can run in between; a handler   *)
(* with a single database call is one action.  `res` is the response sent  *)
(* by the step just taken (NoResponse when the step sent none).            *)
(***************************************************************************)
EXTENDS Integers, Sequences, FiniteSets, TLC

VARIABLES
    appointments,   \* Appointment collection: _id -> document
    doctors,        \* Doctor collection: _id -> document
    users,          \* User collection: set of user ids
    env,            \* process.env: which secrets are configured
    cloud,          \* number of images uploaded to the image host
    unlinked,       \* number of local upload files deleted
    reqs,           \* request slot -> handler in flight (suspended at an await)
    res,            \* response sent by the step just taken
    paidBy,         \* history: appointments named by verified checkout.session.completed events
    cancelledOk,    \* history: appointments whose cancellation was answered with success
    admin           \* admin front end: the AdminContext state and its call in progress

vars == <<appointments, doctors, users, env, cloud, unlinked, reqs, res, paidBy, cancelledOk, admin>>

----------------------------------------------------------------------------
(* Values *)

\* JavaScript `undefined` for an id-valued field.
Undefined == "<undefined>"

\* Falsy request values: `undefined` and the empty string.
Falsy == {Undefined, ""}

Truthy(v) == v \notin Falsy

AppointmentIds == {"a1", "a2", "a3", "a4"}

\* A well-formed id that names no stored appointment.
NoSuchAppointment == "a9"

UserIds == {"u1", "u2"}

\* _id of a doctor that is not in the collection.
GoneDoctor == 0

CheckoutCompleted == "checkout.session.completed"

EventTypes == {CheckoutCompleted, "payment_intent.succeeded"}

\* stripe-signature header: absent, present but not matching, matching.
Signatures == {"none", "bad", "valid"}

\* metadata.appointmentId of a delivered event.
MetaIds == {Undefined, "a1", "a2", NoSuchAppointment}

Slots == {"r1", "r2"}

Idle == [op |-> "idle", pc |-> "idle"]

\* `trace` records what the handler did on the way to the response.
NoResponse == [op |-> "none", req |-> <<>>, status |-> 0, body |-> <<>>, trace |-> <<>>]

Response(op, req, status, body, trace) ==
    [op |-> op, req |-> req, status |-> status, body |-> body, trace |-> trace]

----------------------------------------------------------------------------
(* Initial state *)

InitAppointments ==
    [a \in AppointmentIds |->
        [userId    |-> CASE a = "a1" -> "u1"
                         [] a = "a2" -> "u2"
                         [] a = "a3" -> "u1"
                         [] OTHER    -> Undefined,
         docId     |-> IF a = "a3" THEN GoneDoctor ELSE IF a = "a4" THEN 2 ELSE 1,
         slotDate  |-> "date1",
         slotTime  |-> IF a = "a2" THEN "t2" ELSE "t1",
         cancelled |-> FALSE,
         payment   |-> FALSE]]

Doctor(email, slots) ==
    [name |-> <<"x">>, email |-> email, image |-> "imageUpload.secure_url",
     password |-> "hashedPassword", speciality |-> <<"x">>, degree |-> <<"x">>,
     experience |-> <<"x">>, about |-> <<"x">>, fees |-> <<"5">>,
     address |-> [t |-> "object"], slots_booked |-> slots]

InitDoctors ==
    (1 :> Doctor(<<"a", "@", "b">>, [date1 |-> <<"t1", "t2">>, date2 |-> <<"t1">>]))
    @@ (2 :> Doctor(<<"e", "@", "f">>, [date1 |-> <<"t1">>]))

\* useState([]) for the appointments; no call of the context in progress.
\* `before` is the appointments state when the current call began, `sent` the
\* HTTP requests the call has sent, `reply` how its cancel request ended,
\* `data` what the last awaited request gave.
AdminInit ==
    [pc |-> "idle", appointments |-> <<>>, before |-> <<>>,
     call |-> [op |-> "none", appointmentId |-> Undefined, userId |-> Undefined],
     sent |-> <<>>, reply |-> "none", data |-> <<>>, toast |-> "none"]

Init ==
    /\ appointments = InitAppointments
    /\ doctors = InitDoctors
    /\ users = UserIds
    /\ env \in {[STRIPE_WEBHOOK_SECRET |-> b, JWT_SECRET |-> b] : b \in BOOLEAN}
    /\ cloud = 0
    /\ unlinked = 0
    /\ reqs = [s \in Slots |-> Idle]
    /\ res = NoResponse
    /\ paidBy = {}
    /\ cancelledOk = {}
    /\ admin = AdminInit

----------------------------------------------------------------------------
(* Stripe webhook: POST /webhook *)

\* Variant: the signature header is not compared with the payload.
constructEventAnySignature(sig, secret) == secret

\* Variant: a missing secret does not make verification fail.
constructEventNoSecret(sig, secret) == sig = "valid"

\* stripe.webhooks.constructEvent: returns the event iff the signature header
\* matches the payload under the configured secret, throws otherwise.
constructEvent(sig, secret) == secret /\ sig = "valid"

\* Variant: the update is not restricted to the document with that _id.
markPaidEvery(appts, appointmentId) ==
    [a \in DOMAIN appts |-> [appts[a] EXCEPT !.payment = TRUE]]

\* Variant: the update flips the flag instead of setting it.
markPaidToggle(appts, appointmentId) ==
    IF appointmentId \in DOMAIN appts
    THEN [appts EXCEPT ![appointmentId].payment = ~@]
    ELSE appts

\* Appointment.findByIdAndUpdate(appointmentId, {payment: true}): sets the one
\* field on the document with that _id; a lookup by an id no document has
\* (also a missing id) matches nothing.
markPaid(appts, appointmentId) ==
    IF appointmentId \in DOMAIN appts
    THEN [appts EXCEPT ![appointmentId].payment = TRUE]
    ELSE appts

\* The event-handling part of the handler (after verification): the new
\* Appointment collection.  dbOk = FALSE: the database call throws.
handleEvent(appts, type, metaId, dbOk, guardMissing) ==
    IF type # CheckoutCompleted THEN appts
    ELSE IF guardMissing /\ ~Truthy(metaId) THEN appts
    ELSE IF ~dbOk THEN appts
    ELSE markPaid(appts, metaId)

\* The error caught while handling a verified event, "" if none.
handleEventError(appts, type, metaId, dbOk) ==
    IF type # CheckoutCompleted THEN ""
    ELSE IF ~Truthy(metaId) THEN "No appointmentId found in session metadata"
    ELSE IF ~dbOk THEN "database error"
    ELSE IF metaId \notin DOMAIN appts THEN "Appointment not found"
    ELSE ""

\* Number of database updates the handler issues for a verified event.
updatesIssued(type, metaId, guardMissing) ==
    IF type = CheckoutCompleted /\ (Truthy(metaId) \/ ~guardMissing) THEN 1 ELSE 0

WebhookReq(sig, type, metaId) == [sig |-> sig, type |-> type, metaId |-> metaId]

\* History: a verified checkout.session.completed event names metaId.
recordPaid(sig, type, metaId) ==
    IF env.STRIPE_WEBHOOK_SECRET /\ sig = "valid" /\ type = CheckoutCompleted
    THEN paidBy \cup ({metaId} \cap DOMAIN appointments)
    ELSE paidBy

\* Whether the database update of a verified event is issued and throws.
updateThrew(type, metaId, dbOk, guardMissing) ==
    updatesIssued(type, metaId, guardMissing) = 1 /\ ~dbOk

WebhookTrace(reachedSwitch, updates, threw) ==
    [reachedSwitch |-> reachedSwitch, updates |-> updates, updateThrew |-> threw]

\* res.status(400).send(`Webhook Error: ${err.message}`)
WebhookError(sig, type, metaId) ==
    Response("webhook", WebhookReq(sig, type, metaId), 400,
             [text |-> "Webhook Error: err.message"], WebhookTrace(FALSE, 0, FALSE))

\* Variant: a processing error is answered like the controllers' errors.
processedStrict(err) ==
    IF err = ""
    THEN [status |-> 200, body |-> [received |-> TRUE]]
    ELSE [status |-> 500, body |-> [success |-> FALSE, message |-> err]]

\* The answer after event handling: res.json({received: true}), and from the
\* catch block res.json({received: true, error: error.message}).
processed(err) ==
    [status |-> 200,
     body |-> IF err = "" THEN [received |-> TRUE] ELSE [received |-> TRUE, error |-> err]]

\* Server revision with the explicit secret check and one try/catch around
\* the whole event handling.
webhook(sig, type, metaId, dbOk) ==
    /\ IF ~constructEvent(sig, env.STRIPE_WEBHOOK_SECRET)
       THEN /\ res' = WebhookError(sig, type, metaId)
            /\ UNCHANGED appointments
       ELSE LET answer == processed(handleEventError(appointments, type, metaId, dbOk))
            IN /\ appointments' = handleEvent(appointments, type, metaId, dbOk, TRUE)
               /\ res' = Response("webhook", WebhookReq(sig, type, metaId),
                                  answer.status, answer.body,
                                  WebhookTrace(TRUE, updatesIssued(type, metaId, TRUE),
                                               updateThrew(type, metaId, dbOk, TRUE)))
    /\ paidBy' = recordPaid(sig, type, metaId)
    /\ UNCHANGED <<doctors, users, env, cloud, unlinked, reqs, cancelledOk>>

\* Earlier server revision: no secret check of its own, try/catch around the
\* update only, always the same acknowledgement.
webhookLegacy(sig, type, metaId, dbOk) ==
    /\ IF ~constructEvent(sig, env.STRIPE_WEBHOOK_SECRET)
       THEN /\ res' = WebhookError(sig, type, metaId)
            /\ UNCHANGED appointments
       ELSE /\ appointments' = handleEvent(appointments, type, metaId, dbOk, FALSE)
            /\ res' = Response("webhook", WebhookReq(sig, type, metaId), 200,
                               [received |-> TRUE],
                               WebhookTrace(TRUE, updatesIssued(type, metaId, FALSE),
                                            updateThrew(type, metaId, dbOk, FALSE)))
    /\ paidBy' = recordPaid(sig, type, metaId)
    /\ UNCHANGED <<doctors, users, env, cloud, unlinked, reqs, cancelledOk>>

Webhook ==
    \E sig \in Signatures, type \in EventTypes, metaId \in MetaIds, dbOk \in BOOLEAN :
        webhook(sig, type, metaId, dbOk)

WebhookLegacy ==
    \E sig \in Signatures, type \in EventTypes, metaId \in MetaIds, dbOk \in BOOLEAN :
        webhookLegacy(sig, type, metaId, dbOk)

----------------------------------------------------------------------------
(* Stripe checkout: POST /api/create-checkout-session *)

CheckoutIds == {Undefined, "a1", NoSuchAppointment}

CheckoutReq(appointmentId) == [appointmentId |-> appointmentId]

\* The session lives at Stripe; the handler touches no collection.
\* stripeOk = FALSE: stripe.checkout.sessions.create throws.
createCheckoutSession(appointmentId, stripeOk) ==
    /\ res' = IF ~Truthy(appointmentId) \/ ~stripeOk
              THEN Response("createCheckoutSession", CheckoutReq(appointmentId), 500,
                        [success |-> FALSE, error |-> "error.message"], <<>>)
              ELSE Response("createCheckoutSession", CheckoutReq(appointmentId), 200,
                        [success |-> TRUE, sessionId |-> "session.id"], <<>>)
    /\ UNCHANGED <<appointments, doctors, users, env, cloud, unlinked, reqs, paidBy, cancelledOk>>

\* Earlier revision: no check of appointmentId.
createCheckoutSessionLegacy(appointmentId, stripeOk) ==
    /\ res' = IF ~stripeOk
              THEN Response("createCheckoutSession", CheckoutReq(appointmentId), 500,
                        [success |-> FALSE, error |-> "error.message"], <<>>)
              ELSE Response("createCheckoutSession", CheckoutReq(appointmentId), 200,
                        [success |-> TRUE, sessionId |-> "session.id"], <<>>)
    /\ UNCHANGED <<appointments, doctors, users, env, cloud, unlinked, reqs, paidBy, cancelledOk>>

CreateCheckoutSession ==
    \E appointmentId \in CheckoutIds, stripeOk \in BOOLEAN :
        createCheckoutSession(appointmentId, stripeOk)

CreateCheckoutSessionLegacy ==
    \E appointmentId \in CheckoutIds, stripeOk \in BOOLEAN :
        createCheckoutSessionLegacy(appointmentId, stripeOk)

----------------------------------------------------------------------------
(* Admin controller: appointmentCancel *)

NoneInFlight == \A s \in Slots : reqs[s] = Idle

CancelUserIds == {Undefined, "u1", "u2"}

CancelAppointmentIds == {"", "a1", "a2", "a3", "a4", NoSuchAppointment}

CancelReq(userId, appointmentId) == [userId |-> userId, appointmentId |-> appointmentId]

\* Variant: the text is sent under `error`, as the checkout endpoint does.
FailWithError(status, message) ==
    [status |-> status, body |-> [success |-> FALSE, error |-> message]]

\* res.status(status).json({success: false, message})
Fail(status, message) == [status |-> status, body |-> [success |-> FALSE, message |-> message]]

CancelResponse(r, status, body, wrote) ==
    Response("appointmentCancel", CancelReq(r.userId, r.appointmentId), status, body,
             [cancelWritten |-> wrote])

\* JS object lookup slots_booked[slotDate]: the array, or nothing (<<>>) when
\* the key is absent.
bookedOn(slots_booked, slotDate) ==
    IF slotDate \in DOMAIN slots_booked THEN slots_booked[slotDate] ELSE <<>>

\* doctorData.slots_booked || {}
slotsOf(doctorData) ==
    IF "slots_booked" \in DOMAIN doctorData THEN doctorData.slots_booked ELSE <<>>

\* Variant: the whole date is emptied instead of filtered.
releaseDate(slots_booked, slotDate, slotTime) ==
    IF slotDate \in DOMAIN slots_booked
    THEN [slots_booked EXCEPT ![slotDate] = <<>>]
    ELSE slots_booked

\* slots_booked[slotDate] = slots_booked[slotDate].filter(e => e !== slotTime),
\* when the date has an array.
releaseSlot(slots_booked, slotDate, slotTime) ==
    IF slotDate \in DOMAIN slots_booked
    THEN [slots_booked EXCEPT ![slotDate] = SelectSeq(@, LAMBDA e : e # slotTime)]
    ELSE slots_booked

\* Variant: the owner of the appointment is not compared with the caller.
checkAppointmentNoOwner(appts, userId, appointmentId) ==
    IF appointmentId \notin DOMAIN appts THEN Fail(404, "Appointment not found")
    ELSE IF ~Truthy(appts[appointmentId].userId) THEN Fail(500, "Appointment data is corrupted")
    ELSE [status |-> 0, body |-> <<>>]

\* The checks made on the appointment read by findById, in source order:
\* the rejection, or "ok".
checkAppointment(appts, userId, appointmentId) ==
    IF appointmentId \notin DOMAIN appts THEN Fail(404, "Appointment not found")
    ELSE IF ~Truthy(appts[appointmentId].userId) THEN Fail(500, "Appointment data is corrupted")
    ELSE IF appts[appointmentId].userId # userId THEN Fail(403, "Unauthorized Action")
    ELSE [status |-> 0, body |-> <<>>]

\* Variant: the update writes the flag's old default.
markCancelledFalse(appts, appointmentId) ==
    IF appointmentId \in DOMAIN appts
    THEN [appts EXCEPT ![appointmentId].cancelled = FALSE]
    ELSE appts

\* appointmentModel.findByIdAndUpdate(appointmentId, {cancelled: true})
markCancelled(appts, appointmentId) ==
    IF appointmentId \in DOMAIN appts
    THEN [appts EXCEPT ![appointmentId].cancelled = TRUE]
    ELSE appts

\* doctorModel.findByIdAndUpdate(docId, {slots_booked})
writeSlots(docs, docId, slots_booked) ==
    IF docId \in DOMAIN docs
    THEN [docs EXCEPT ![docId] = ("slots_booked" :> slots_booked) @@ @]
    ELSE docs

\* Body check, then findById is issued.
cancelStart(s, userId, appointmentId) ==
    /\ reqs[s] = Idle
    /\ IF ~Truthy(userId) \/ ~Truthy(appointmentId)
       THEN /\ res' = CancelResponse(CancelReq(userId, appointmentId), 400,
                          Fail(400, "Missing userId or appointmentId").body, FALSE)
            /\ UNCHANGED reqs
       ELSE /\ reqs' = [reqs EXCEPT ![s] = [op |-> "appointmentCancel", pc |-> "findAppointment",
                                             userId |-> userId, appointmentId |-> appointmentId]]
            /\ res' = NoResponse
    /\ UNCHANGED <<appointments, doctors, users, env, cloud, unlinked, paidBy, cancelledOk>>

\* findById(appointmentId) returns; existence, corruption and ownership
\* checks; then the `cancelled` update is issued.
cancelFindAppointment(s, dbOk) ==
    /\ reqs[s].op = "appointmentCancel" /\ reqs[s].pc = "findAppointment"
    /\ LET r == reqs[s]
           chk == IF dbOk THEN checkAppointment(appointments, r.userId, r.appointmentId)
                  ELSE Fail(500, "error.message")
       IN IF chk.status # 0
          THEN /\ res' = CancelResponse(r, chk.status, chk.body, FALSE)
               /\ reqs' = [reqs EXCEPT ![s] = Idle]
          ELSE /\ reqs' = [reqs EXCEPT ![s] =
                              [op |-> "appointmentCancel", pc |-> "cancelWrite",
                               userId |-> r.userId, appointmentId |-> r.appointmentId,
                               docId |-> appointments[r.appointmentId].docId,
                               slotDate |-> appointments[r.appointmentId].slotDate,
                               slotTime |-> appointments[r.appointmentId].slotTime]]
               /\ res' = NoResponse
    /\ UNCHANGED <<appointments, doctors, users, env, cloud, unlinked, paidBy, cancelledOk>>

\* The first write: cancelled = true; then findById(docId) is issued.
cancelWrite(s, dbOk) ==
    /\ reqs[s].op = "appointmentCancel" /\ reqs[s].pc = "cancelWrite"
    /\ LET r == reqs[s]
       IN IF ~dbOk
          THEN /\ res' = CancelResponse(r, 500, Fail(500, "error.message").body, FALSE)
               /\ reqs' = [reqs EXCEPT ![s] = Idle]
               /\ UNCHANGED appointments
          ELSE /\ appointments' = markCancelled(appointments, r.appointmentId)
               /\ reqs' = [reqs EXCEPT ![s].pc = "findDoctor"]
               /\ res' = NoResponse
    /\ UNCHANGED <<doctors, users, env, cloud, unlinked, paidBy, cancelledOk>>

\* findById(docId) returns; the slot is filtered out of the copy read; then
\* the slots_booked update is issued.
cancelFindDoctor(s, dbOk) ==
    /\ reqs[s].op = "appointmentCancel" /\ reqs[s].pc = "findDoctor"
    /\ LET r == reqs[s]
       IN IF ~dbOk
          THEN /\ res' = CancelResponse(r, 500, Fail(500, "error.message").body, TRUE)
               /\ reqs' = [reqs EXCEPT ![s] = Idle]
          ELSE IF r.docId \notin DOMAIN doctors
          THEN /\ res' = CancelResponse(r, 404, Fail(404, "Doctor not found").body, TRUE)
               /\ reqs' = [reqs EXCEPT ![s] = Idle]
          ELSE /\ reqs' = [reqs EXCEPT ![s] =
                              [op |-> "appointmentCancel", pc |-> "slotWrite",
                               userId |-> r.userId, appointmentId |-> r.appointmentId,
                               docId |-> r.docId, slotDate |-> r.slotDate,
                               slotTime |-> r.slotTime,
                               slots_booked |-> releaseSlot(slotsOf(doctors[r.docId]),
                                                            r.slotDate, r.slotTime)]]
               /\ res' = NoResponse
    /\ UNCHANGED <<appointments, doctors, users, env, cloud, unlinked, paidBy, cancelledOk>>

\* The second write: the doctor's slots_booked is replaced by the filtered copy.
cancelSlotWrite(s, dbOk) ==
    /\ reqs[s].op = "appointmentCancel" /\ reqs[s].pc = "slotWrite"
    /\ LET r == reqs[s]
       IN IF ~dbOk
          THEN /\ res' = CancelResponse(r, 500, Fail(500, "error.message").body, TRUE)
               /\ UNCHANGED <<doctors, cancelledOk>>
          ELSE /\ doctors' = writeSlots(doctors, r.docId, r.slots_booked)
               /\ res' = CancelResponse(r, 200,
                            [success |-> TRUE, message |-> "Appointment Cancelled"], TRUE)
               /\ cancelledOk' = cancelledOk \cup {r.appointmentId}
    /\ reqs' = [reqs EXCEPT ![s] = Idle]
    /\ UNCHANGED <<appointments, users, env, cloud, unlinked, paidBy>>

CancelStart ==
    \E s \in Slots, userId \in CancelUserIds, appointmentId \in CancelAppointmentIds :
        cancelStart(s, userId, appointmentId)

CancelFindAppointment == \E s \in Slots, dbOk \in BOOLEAN : cancelFindAppointment(s, dbOk)

CancelWrite == \E s \in Slots, dbOk \in BOOLEAN : cancelWrite(s, dbOk)

CancelFindDoctor == \E s \in Slots, dbOk \in BOOLEAN : cancelFindDoctor(s, dbOk)

CancelSlotWrite == \E s \in Slots, dbOk \in BOOLEAN : cancelSlotWrite(s, dbOk)

----------------------------------------------------------------------------
(* Admin controller: addDoctor *)

\* A form field is a JS value: undefined, a string (its characters; q is the
\* double quote, sp a blank) or an object.
Undef == [t |-> "undefined"]

Str(chars) == [t |-> "string", v |-> chars]

Obj == [t |-> "object"]

q == "\""

sp == " "

RECURSIVE trimStart(_)
trimStart(s) == IF s # <<>> /\ Head(s) = sp THEN trimStart(Tail(s)) ELSE s

RECURSIVE trimEnd(_)
trimEnd(s) == IF s # <<>> /\ s[Len(s)] = sp THEN trimEnd(SubSeq(s, 1, Len(s) - 1)) ELSE s

\* String.prototype.trim
trim(s) == trimEnd(trimStart(s))

\* str.replace(/^"|"$/g, "").trim(): one quote off the start, one off the
\* end, then the blanks around; a non-string is returned as it is.
cleanQuotes(str) ==
    IF str.t # "string" THEN str
    ELSE LET s1 == IF str.v # <<>> /\ Head(str.v) = q THEN Tail(str.v) ELSE str.v
             s2 == IF s1 # <<>> /\ s1[Len(s1)] = q THEN SubSeq(s1, 1, Len(s1) - 1) ELSE s1
         IN Str(trim(s2))

\* !value for a form field
missing(value) == value.t = "undefined" \/ (value.t = "string" /\ value.v = <<>>)

\* validator.isEmail, on the addresses of the model: one "@" with text on
\* both sides.
isEmail(chars) ==
    /\ Cardinality({i \in 1..Len(chars) : chars[i] = "@"}) = 1
    /\ chars[1] # "@"
    /\ chars[Len(chars)] # "@"

MinPasswordLength == 8

\* JSON.parse succeeds on the texts {} and "" of the model.
parses(chars) == chars \in {<<"{", "}">>, <<q, q>>}

\* typeof address === "string" ? JSON.parse(address) : address; "throws" when
\* the text is no JSON.
parseAddress(address) ==
    IF address.t = "string"
    THEN IF parses(address.v) THEN "parsed" ELSE "throws"
    ELSE "object"

Email1 == <<"a", "@", "b">>

Email3 == <<"c", "@", "d">>

Password8 == <<"p", "p", "p", "p", "p", "p", "p", "p">>

Password7 == <<"p", "p", "p", "p", "p", "p", "p">>

Quoted(chars) == <<q>> \o chars \o <<q>>

TextFields == {"name", "speciality", "degree", "experience", "about", "fees"}

Body(email, password, address) ==
    [name |-> Str(<<"x">>), email |-> email, password |-> password,
     speciality |-> Str(<<"x">>), degree |-> Str(<<"x">>), experience |-> Str(<<"x">>),
     about |-> Str(<<"x">>), fees |-> Str(<<"5">>), address |-> address]

EmailInputs == {Undef, Str(Quoted(Email1)), Str(Email3), Str(<<"x">>)}

PasswordInputs == {Str(Password8), Str(Quoted(Password7)), Str(Quoted(<<sp>> \o Password8))}

AddressInputs == {Undef, Str(<<"{", "}">>), Str(<<"x">>), Obj}

BadFieldInputs == {Undef, Str(Quoted(<<>>)), Str(<<sp>>), Str(Quoted(<<"y">>))}

AddDoctorBodies ==
    {Body(e, p, a) : e \in EmailInputs, p \in PasswordInputs, a \in AddressInputs}
    \cup {[Body(Str(Email3), Str(Password8), Str(<<"{", "}">>)) EXCEPT ![f] = v] :
              f \in TextFields, v \in BadFieldInputs}

\* Uploads the model follows (each started addDoctor may cost one).
MaxUploads == 2

cleaned(body) ==
    [name |-> cleanQuotes(body.name), email |-> cleanQuotes(body.email),
     password |-> cleanQuotes(body.password), speciality |-> cleanQuotes(body.speciality),
     degree |-> cleanQuotes(body.degree), experience |-> cleanQuotes(body.experience),
     about |-> cleanQuotes(body.about), fees |-> cleanQuotes(body.fees),
     address |-> body.address]

AddDoctorResponse(r, status, body) ==
    Response("addDoctor", [file |-> r.file, body |-> r.body], status, body,
             [uploaded |-> r.uploaded, unlinked |-> r.uploaded])

\* The synchronous checks of addDoctor on the cleaned fields, in source
\* order: the 400 message, or "" when all pass.
validateDoctor(file, c) ==
    IF ~file THEN "Image file is required"
    ELSE IF \E f \in DOMAIN c : missing(c[f]) THEN "Missing Details"
    ELSE IF ~isEmail(c.email.v) THEN "Please enter a valid email"
    ELSE IF Len(c.password.v) < MinPasswordLength
         THEN "Password must be at least 8 characters long"
    ELSE ""

\* The body of a 400 sent by the synchronous checks.
rejection(msg, c) ==
    IF msg = "Missing Details"
    THEN [success |-> FALSE, message |-> msg,
          received |-> [f \in DOMAIN c |-> ~missing(c[f])]]
    ELSE IF msg = "Please enter a valid email"
    THEN [success |-> FALSE, message |-> msg, receivedEmail |-> c.email]
    ELSE [success |-> FALSE, message |-> msg]

\* doctorModel.findOne({email})
emailExists(docs, email) == \E d \in DOMAIN docs : docs[d].email = email

\* new doctorModel(doctorData): the document saved; _id is fresh.
doctorData(c) ==
    [name |-> c.name.v, email |-> c.email.v, image |-> "imageUpload.secure_url",
     password |-> "hashedPassword", speciality |-> c.speciality.v, degree |-> c.degree.v,
     experience |-> c.experience.v, about |-> c.about.v, fees |-> c.fees.v,
     address |-> c.address]

newId(docs) == Cardinality(DOMAIN docs) + 1

\* newDoctor.save()
saveDoctor(docs, doc) == docs @@ (newId(docs) :> doc)

\* Fields of the Doctor schema that carry a unique index: none, the documents
\* have no invariant beyond the types of their fields.
doctorSchemaUnique == {}

\* save() is refused when a stored document has the same value in a field
\* with a unique index.
duplicateKey(docs, doc) ==
    \E f \in doctorSchemaUnique : \E d \in DOMAIN docs : docs[d][f] = doc[f]

addDoctorStart(s, file, body) ==
    /\ reqs[s] = Idle
    /\ cloud < MaxUploads
    /\ LET r == [op |-> "addDoctor", pc |-> "findOne", file |-> file, body |-> body,
                 uploaded |-> FALSE]
           msg == validateDoctor(file, cleaned(body))
       IN IF msg # ""
          THEN /\ res' = AddDoctorResponse(r, 400, rejection(msg, cleaned(body)))
               /\ UNCHANGED reqs
          ELSE /\ reqs' = [reqs EXCEPT ![s] = r]
               /\ res' = NoResponse
    /\ UNCHANGED <<appointments, doctors, users, env, cloud, unlinked, paidBy, cancelledOk>>

\* findOne({email}) returns; then the password is hashed and the upload issued.
addDoctorFindOne(s, dbOk) ==
    /\ reqs[s].op = "addDoctor" /\ reqs[s].pc = "findOne"
    /\ LET r == reqs[s]
       IN IF ~dbOk
          THEN /\ res' = AddDoctorResponse(r, 500,
                            [success |-> FALSE, message |-> "Internal server error",
                             error |-> "error.message"])
               /\ reqs' = [reqs EXCEPT ![s] = Idle]
          ELSE IF emailExists(doctors, cleaned(r.body).email.v)
          THEN /\ res' = AddDoctorResponse(r, 400,
                            [success |-> FALSE,
                             message |-> "Doctor with this email already exists"])
               /\ reqs' = [reqs EXCEPT ![s] = Idle]
          ELSE /\ reqs' = [reqs EXCEPT ![s].pc = "upload"]
               /\ res' = NoResponse
    /\ UNCHANGED <<appointments, doctors, users, env, cloud, unlinked, paidBy, cancelledOk>>

\* cloudinary.uploader.upload returns; the local file is unlinked; the address
\* is parsed; then save() is issued.
addDoctorUpload(s, cloudOk) ==
    /\ reqs[s].op = "addDoctor" /\ reqs[s].pc = "upload"
    /\ LET r == reqs[s]
           up == [r EXCEPT !.uploaded = TRUE]
       IN IF ~cloudOk
          THEN /\ res' = AddDoctorResponse(r, 500,
                            [success |-> FALSE, message |-> "Internal server error",
                             error |-> "error.message"])
               /\ reqs' = [reqs EXCEPT ![s] = Idle]
               /\ UNCHANGED <<cloud, unlinked>>
          ELSE /\ cloud' = cloud + 1
               /\ unlinked' = unlinked + 1
               /\ IF parseAddress(r.body.address) = "throws"
                  THEN /\ res' = AddDoctorResponse(up, 400,
                                    [success |-> FALSE,
                                     message |-> "Invalid address format. Please provide a valid JSON object",
                                     receivedAddress |-> r.body.address])
                       /\ reqs' = [reqs EXCEPT ![s] = Idle]
                  ELSE /\ reqs' = [reqs EXCEPT ![s] = [up EXCEPT !.pc = "save"]]
                       /\ res' = NoResponse
    /\ UNCHANGED <<appointments, doctors, users, env, paidBy, cancelledOk>>

\* save() returns.
addDoctorSave(s, dbOk) ==
    /\ reqs[s].op = "addDoctor" /\ reqs[s].pc = "save"
    /\ LET r == reqs[s]
       IN IF ~dbOk \/ duplicateKey(doctors, doctorData(cleaned(r.body)))
          THEN /\ res' = AddDoctorResponse(r, 500,
                            [success |-> FALSE, message |-> "Internal server error",
                             error |-> "error.message"])
               /\ UNCHANGED doctors
          ELSE /\ doctors' = saveDoctor(doctors, doctorData(cleaned(r.body)))
               /\ res' = AddDoctorResponse(r, 201,
                            [success |-> TRUE, message |-> "Doctor added successfully",
                             doctor |-> [name |-> cleaned(r.body).name.v,
                                         email |-> cleaned(r.body).email.v,
                                         speciality |-> cleaned(r.body).speciality.v,
                                         image |-> "imageUpload.secure_url"]])
    /\ reqs' = [reqs EXCEPT ![s] = Idle]
    /\ UNCHANGED <<appointments, users, env, cloud, unlinked, paidBy, cancelledOk>>

AddDoctorStart ==
    \E s \in Slots :
        \/ \E body \in AddDoctorBodies : addDoctorStart(s, TRUE, body)
        \/ addDoctorStart(s, FALSE, Body(Str(Email3), Str(Password8), Str(<<"{", "}">>)))

AddDoctorFindOne == \E s \in Slots, dbOk \in BOOLEAN : addDoctorFindOne(s, dbOk)

AddDoctorUpload == \E s \in Slots, cloudOk \in BOOLEAN : addDoctorUpload(s, cloudOk)

AddDoctorSave == \E s \in Slots, dbOk \in BOOLEAN : addDoctorSave(s, dbOk)

----------------------------------------------------------------------------
(* Admin controller: loginAdmin, allDoctors, appointmentsAdmin, adminDashboard *)

Credentials == {"admin", "other"}

\* jwt.sign throws when JWT_SECRET is not set.
loginAdmin(email, password) ==
    /\ res' = IF email = "admin" /\ password = "admin"
              THEN IF env.JWT_SECRET
                   THEN Response("loginAdmin", [email |-> email, password |-> password], 200,
                                 [success |-> TRUE, token |-> "token"], <<>>)
                   ELSE Response("loginAdmin", [email |-> email, password |-> password], 200,
                                 [success |-> FALSE, message |-> "error.message"], <<>>)
              ELSE Response("loginAdmin", [email |-> email, password |-> password], 200,
                            [success |-> FALSE, message |-> "Invalid credentials"], <<>>)
    /\ UNCHANGED <<appointments, doctors, users, env, cloud, unlinked, reqs, paidBy, cancelledOk>>

\* doctorModel.find({}).select("-password")
withoutPassword(docs) ==
    [d \in DOMAIN docs |-> [f \in DOMAIN docs[d] \ {"password"} |-> docs[d][f]]]

allDoctors(dbOk) ==
    /\ res' = IF dbOk
              THEN Response("allDoctors", <<>>, 200,
                            [success |-> TRUE, doctors |-> withoutPassword(doctors)], <<>>)
              ELSE Response("allDoctors", <<>>, 200,
                            [success |-> FALSE, message |-> "error.message"], <<>>)
    /\ UNCHANGED <<appointments, doctors, users, env, cloud, unlinked, reqs, paidBy, cancelledOk>>

appointmentsAdmin(dbOk) ==
    /\ res' = IF dbOk
              THEN Response("appointmentsAdmin", <<>>, 200,
                            [success |-> TRUE, appointments |-> appointments], <<>>)
              ELSE Response("appointmentsAdmin", <<>>, 200,
                            [success |-> FALSE, message |-> "error.message"], <<>>)
    /\ UNCHANGED <<appointments, doctors, users, env, cloud, unlinked, reqs, paidBy, cancelledOk>>

\* Appointments in the order find({}) returns them.
AppointmentOrder == <<"a1", "a2", "a3", "a4">>

LatestCount == 5

\* appointments.reverse().slice(0, 5)
latestAppointments(order) ==
    LET n == Len(order)
        reversed == [i \in 1..n |-> order[n + 1 - i]]
    IN SubSeq(reversed, 1, IF n < LatestCount THEN n ELSE LatestCount)

adminDashboard(dbOk) ==
    /\ res' = IF dbOk
              THEN Response("adminDashboard", <<>>, 200,
                            [success |-> TRUE,
                             dashData |-> [doctors |-> Cardinality(DOMAIN doctors),
                                           appointments |-> Len(AppointmentOrder),
                                           patients |-> Cardinality(users),
                                           latestAppointments |->
                                               latestAppointments(AppointmentOrder)]], <<>>)
              ELSE Response("adminDashboard", <<>>, 200,
                            [success |-> FALSE, message |-> "error.message"], <<>>)
    /\ UNCHANGED <<appointments, doctors, users, env, cloud, unlinked, reqs, paidBy, cancelledOk>>

LoginAdmin == \E email \in Credentials, password \in Credentials : loginAdmin(email, password)

AllDoctors == \E dbOk \in BOOLEAN : allDoctors(dbOk)

AppointmentsAdmin == \E dbOk \in BOOLEAN : appointmentsAdmin(dbOk)

AdminDashboard == \E dbOk \in BOOLEAN : adminDashboard(dbOk)

----------------------------------------------------------------------------
(* Admin front end: AdminContext (cancelAppointment, getAllAppointments) *)

\* What an awaited axios call gives when it throws.
Threw == [threw |-> TRUE]

\* A 2xx answer given before the controller is reached.
Refusal == [success |-> FALSE, message |-> "refused"]

\* await axios.post / axios.get: the response's data; throws on a network
\* error and on a status outside 2xx.
axios(response, networkOk) ==
    IF networkOk /\ response.status \in 200..299 THEN response.body ELSE Threw

\* data.success
succeeded(data) == data # Threw /\ "success" \in DOMAIN data /\ data.success

FrontAppointmentIds == {Undefined, "", "a1", "a2", "a3", NoSuchAppointment}

FrontUserIds == {Undefined, "u1", "u2"}

\* Variant: the list is refreshed whatever the cancel request gave.
cancelSettledAlwaysRefresh(adm, data) ==
    [adm EXCEPT !.reply = IF data = Threw THEN "threw"
                          ELSE IF succeeded(data) THEN "success" ELSE "failure",
                !.data = data,
                !.pc = "refresh:sent", !.sent = Append(@, "appointments")]

\* cancelAppointment after its await: on success the toast and the call of
\* getAllAppointments, which sends its GET at once; otherwise an error toast.
cancelSettled(adm, data) ==
    IF data = Threw
    THEN [adm EXCEPT !.reply = "threw", !.data = data, !.toast = "error", !.pc = "idle"]
    ELSE IF succeeded(data)
    THEN [adm EXCEPT !.reply = "success", !.data = data, !.toast = "success",
                     !.pc = "refresh:sent", !.sent = Append(@, "appointments")]
    ELSE [adm EXCEPT !.reply = "failure", !.data = data, !.toast = "error", !.pc = "idle"]

\* getAllAppointments after its await: setAppointments(data.appointments) on
\* success, an error toast otherwise.
getSettled(adm, data) ==
    IF succeeded(data)
    THEN [adm EXCEPT !.appointments = data.appointments, !.data = data, !.pc = "idle"]
    ELSE [adm EXCEPT !.data = data, !.toast = "error", !.pc = "idle"]

\* cancelAppointment(appointmentId, userId) up to its await.
cancelAppointment(appointmentId, userId) ==
    /\ admin.pc = "idle"
    /\ res = NoResponse
    /\ NoneInFlight
    /\ LET call == [admin EXCEPT
                        !.call = [op |-> "cancelAppointment",
                                  appointmentId |-> appointmentId, userId |-> userId],
                        !.before = admin.appointments, !.sent = <<>>,
                        !.reply = "none", !.data = <<>>, !.toast = "none"]
       IN admin' = IF ~Truthy(appointmentId)
                   THEN [call EXCEPT !.toast = "Invalid appointment ID"]
                   ELSE [call EXCEPT !.pc = "cancel:sent",
                                     !.sent = <<"cancel-appointment">>]
    /\ UNCHANGED <<appointments, doctors, users, env, cloud, unlinked, reqs, res, paidBy,
                   cancelledOk>>

\* The POST reaches appointmentCancel with the body {appointmentId, userId}.
cancelPosted(s) ==
    /\ admin.pc = "cancel:sent"
    /\ res = NoResponse
    /\ cancelStart(s, admin.call.userId, admin.call.appointmentId)
    /\ admin' = [admin EXCEPT !.pc = "cancel:await"]

\* The POST does not reach the controller: it throws, or is refused.
cancelNotHandled(data) ==
    /\ admin.pc = "cancel:sent"
    /\ res = NoResponse
    /\ admin' = cancelSettled(admin, data)
    /\ UNCHANGED <<appointments, doctors, users, env, cloud, unlinked, reqs, res, paidBy,
                   cancelledOk>>

\* The answer of appointmentCancel arrives at the awaiting call.
cancelReturns(networkOk) ==
    /\ admin.pc = "cancel:await"
    /\ res.op = "appointmentCancel"
    /\ admin' = cancelSettled(admin, axios(res, networkOk))
    /\ res' = NoResponse
    /\ UNCHANGED <<appointments, doctors, users, env, cloud, unlinked, reqs, paidBy,
                   cancelledOk>>

\* getAllAppointments() called on its own (by a page), up to its await.
getAllAppointments ==
    /\ admin.pc = "idle"
    /\ res = NoResponse
    /\ NoneInFlight
    /\ admin' = [admin EXCEPT
                     !.call = [op |-> "getAllAppointments",
                               appointmentId |-> Undefined, userId |-> Undefined],
                     !.before = admin.appointments, !.sent = <<"appointments">>,
                     !.reply = "none", !.data = <<>>, !.toast = "none",
                     !.pc = "refresh:sent"]
    /\ UNCHANGED <<appointments, doctors, users, env, cloud, unlinked, reqs, res, paidBy,
                   cancelledOk>>

\* The GET reaches appointmentsAdmin.
getPosted(dbOk) ==
    /\ admin.pc = "refresh:sent"
    /\ res = NoResponse
    /\ appointmentsAdmin(dbOk)
    /\ admin' = [admin EXCEPT !.pc = "refresh:await"]

\* The GET does not reach the controller.
getNotHandled(data) ==
    /\ admin.pc = "refresh:sent"
    /\ res = NoResponse
    /\ admin' = getSettled(admin, data)
    /\ UNCHANGED <<appointments, doctors, users, env, cloud, unlinked, reqs, res, paidBy,
                   cancelledOk>>

\* The answer of appointmentsAdmin arrives at the awaiting call.
getReturns(networkOk) ==
    /\ admin.pc = "refresh:await"
    /\ res.op = "appointmentsAdmin"
    /\ admin' = getSettled(admin, axios(res, networkOk))
    /\ res' = NoResponse
    /\ UNCHANGED <<appointments, doctors, users, env, cloud, unlinked, reqs, paidBy,
                   cancelledOk>>

CancelAppointment ==
    \E appointmentId \in FrontAppointmentIds, userId \in FrontUserIds :
        cancelAppointment(appointmentId, userId)

CancelPosted == \E s \in Slots : cancelPosted(s)

CancelNotHandled == \E data \in {Threw, Refusal} : cancelNotHandled(data)

CancelReturns == \E networkOk \in BOOLEAN : cancelReturns(networkOk)

GetAllAppointments == getAllAppointments

GetPosted == \E dbOk \in BOOLEAN : getPosted(dbOk)

GetNotHandled == \E data \in {Threw, Refusal} : getNotHandled(data)

GetReturns == \E networkOk \in BOOLEAN : getReturns(networkOk)

----------------------------------------------------------------------------
(* Specifications *)

\* The response in flight reaches its client.  A handler step is taken only
\* when no response is in flight, so `res` is always the response of the step
\* just taken; this orders the steps and leaves out no state of the
\* collections.
Deliver ==
    /\ res # NoResponse
    /\ res' = NoResponse
    /\ UNCHANGED <<appointments, doctors, users, env, cloud, unlinked, reqs, paidBy, cancelledOk>>

Ready == res = NoResponse

\* Every operation, one request at a time: a request is accepted only when
\* no handler is suspended.
Next ==
    \/ Ready /\ NoneInFlight /\ Webhook /\ UNCHANGED admin
    \/ Ready /\ NoneInFlight /\ WebhookLegacy /\ UNCHANGED admin
    \/ Ready /\ NoneInFlight /\ CreateCheckoutSession /\ UNCHANGED admin
    \/ Ready /\ NoneInFlight /\ CreateCheckoutSessionLegacy /\ UNCHANGED admin
    \/ Ready /\ NoneInFlight /\ LoginAdmin /\ UNCHANGED admin
    \/ Ready /\ NoneInFlight /\ AllDoctors /\ UNCHANGED admin
    \/ Ready /\ NoneInFlight /\ AppointmentsAdmin /\ UNCHANGED admin
    \/ Ready /\ NoneInFlight /\ AdminDashboard /\ UNCHANGED admin
    \/ Ready /\ NoneInFlight /\ CancelStart /\ UNCHANGED admin
    \/ Ready /\ CancelFindAppointment /\ UNCHANGED admin
    \/ Ready /\ CancelWrite /\ UNCHANGED admin
    \/ Ready /\ CancelFindDoctor /\ UNCHANGED admin
    \/ Ready /\ CancelSlotWrite /\ UNCHANGED admin
    \/ Ready /\ NoneInFlight /\ AddDoctorStart /\ UNCHANGED admin
    \/ Ready /\ AddDoctorFindOne /\ UNCHANGED admin
    \/ Ready /\ AddDoctorUpload /\ UNCHANGED admin
    \/ Ready /\ AddDoctorSave /\ UNCHANGED admin
    \/ Deliver /\ UNCHANGED admin

Spec == Init /\ [][Next]_vars

\* Cancellations whose steps overlap at their awaits.
NextCancel ==
    \/ Ready /\ CancelStart /\ UNCHANGED admin
    \/ Ready /\ CancelFindAppointment /\ UNCHANGED admin
    \/ Ready /\ CancelWrite /\ UNCHANGED admin
    \/ Ready /\ CancelFindDoctor /\ UNCHANGED admin
    \/ Ready /\ CancelSlotWrite /\ UNCHANGED admin
    \/ Deliver /\ UNCHANGED admin

SpecCancel == Init /\ [][NextCancel]_vars

\* addDoctor requests whose steps overlap at their awaits.
NextAddDoctor ==
    \/ Ready /\ AddDoctorStart /\ UNCHANGED admin
    \/ Ready /\ AddDoctorFindOne /\ UNCHANGED admin
    \/ Ready /\ AddDoctorUpload /\ UNCHANGED admin
    \/ Ready /\ AddDoctorSave /\ UNCHANGED admin
    \/ Deliver /\ UNCHANGED admin

SpecAddDoctor == Init /\ [][NextAddDoctor]_vars

\* The admin front end against appointmentCancel and appointmentsAdmin: one
\* call of the context at a time.
NextAdmin ==
    \/ CancelAppointment
    \/ CancelPosted
    \/ CancelNotHandled
    \/ Ready /\ CancelFindAppointment /\ UNCHANGED admin
    \/ Ready /\ CancelWrite /\ UNCHANGED admin
    \/ Ready /\ CancelFindDoctor /\ UNCHANGED admin
    \/ Ready /\ CancelSlotWrite /\ UNCHANGED admin
    \/ CancelReturns
    \/ GetAllAppointments
    \/ GetPosted
    \/ GetNotHandled
    \/ GetReturns

SpecAdmin == Init /\ [][NextAdmin]_vars

----------------------------------------------------------------------------
(* Properties: the payment webhook *)

\* The request answered by `r` carried a signature that constructEvent accepts.
Verified(r) == env.STRIPE_WEBHOOK_SECRET /\ r.req.sig = "valid"

\* C1: an appointment's payment flag is true only if the webhook handler has
\* processed a request with a valid signature, of type
\* checkout.session.completed, whose metadata.appointmentId is that
\* appointment; nothing else sets the flag.
C1_PaymentOnlyByVerifiedWebhook ==
    \A a \in DOMAIN appointments : appointments[a].payment => a \in paidBy

C1_Witness ==
    /\ res.op = "webhook"
    /\ res.req.metaId = "a1"
    /\ appointments["a1"].payment
    /\ ~appointments["a2"].payment

\* C2: when verification fails (signature absent or wrong, or no secret
\* configured) the handler answers 400 with the `Webhook Error: ...` text,
\* does not reach the switch on the event type, and leaves every appointment
\* as it was.
C2_FailedVerification ==
    [][(res'.op = "webhook" /\ ~Verified(res'))
          => /\ res'.status = 400
             /\ res'.body = [text |-> "Webhook Error: err.message"]
             /\ ~res'.trace.reachedSwitch
             /\ res'.trace.updates = 0
             /\ appointments' = appointments]_vars

C2_Witness ==
    /\ res.op = "webhook"
    /\ res.status = 400
    /\ res.req.sig = "valid"
    /\ res.req.type = CheckoutCompleted
    /\ ~env.STRIPE_WEBHOOK_SECRET

\* C3: for a verified event the only change is the payment flag of the
\* appointment named by metadata.appointmentId, set to true when the type is
\* checkout.session.completed (and the update does not throw); every other
\* field, every other appointment, every doctor and user stays as it was, and
\* any other event type changes nothing.
C3_VerifiedEventEffect ==
    [][(res'.op = "webhook" /\ Verified(res'))
          => /\ doctors' = doctors
             /\ users' = users
             /\ DOMAIN appointments' = DOMAIN appointments
             /\ \A a \in DOMAIN appointments :
                    appointments'[a] =
                        IF /\ res'.req.type = CheckoutCompleted
                           /\ a = res'.req.metaId
                           /\ ~res'.trace.updateThrew
                        THEN [appointments[a] EXCEPT !.payment = TRUE]
                        ELSE appointments[a]]_vars

C3_Witness ==
    /\ res.op = "webhook"
    /\ res.status = 200
    /\ res.req.type = CheckoutCompleted
    /\ res.req.metaId = "a2"
    /\ appointments["a2"].payment
    /\ ~appointments["a1"].payment
    /\ appointments["a2"].cancelled

\* C4: a verified request is always answered 200 with received: true, also
\* when metadata.appointmentId is missing, names no appointment, or the
\* update throws; in those cases no appointment changes, and the handler
\* issues at most one update.
C4_AlwaysAcknowledged ==
    [][(res'.op = "webhook" /\ Verified(res'))
          => /\ res'.status = 200
             /\ "received" \in DOMAIN res'.body
             /\ res'.body.received
             /\ res'.trace.updates <= 1
             /\ (\/ ~Truthy(res'.req.metaId)
                 \/ res'.req.metaId \notin DOMAIN appointments
                 \/ res'.trace.updateThrew) => appointments' = appointments]_vars

C4_Witness ==
    /\ res.op = "webhook"
    /\ Verified(res)
    /\ res.req.type = CheckoutCompleted
    /\ res.trace.updateThrew
    /\ "error" \in DOMAIN res.body
    /\ res.status = 200

----------------------------------------------------------------------------
(* Properties: appointmentCancel *)

CancelSucceeded(r) ==
    /\ r.op = "appointmentCancel"
    /\ r.status = 200
    /\ r.body = [success |-> TRUE, message |-> "Appointment Cancelled"]

\* C5: when appointmentCancel answers {success: true, "Appointment
\* Cancelled"} for appointment A and no other request ran in between (Spec
\* takes one request at a time, so the doctors before the answering step are
\* the doctors before the call), A is cancelled, A.slotTime is not booked on
\* A.slotDate, the other times of that date are as before, and so are the
\* other dates of the doctor and all other doctors.
C5_CancelReleasesExactlyTheSlot ==
    [][CancelSucceeded(res')
          => LET ap  == appointments'[res'.req.appointmentId]
                 old == slotsOf(doctors[ap.docId])
                 new == slotsOf(doctors'[ap.docId])
             IN /\ ap.cancelled
                /\ \A i \in 1..Len(bookedOn(new, ap.slotDate)) :
                       bookedOn(new, ap.slotDate)[i] # ap.slotTime
                /\ bookedOn(new, ap.slotDate)
                       = SelectSeq(bookedOn(old, ap.slotDate), LAMBDA e : e # ap.slotTime)
                /\ DOMAIN new = DOMAIN old
                /\ \A date \in DOMAIN old \ {ap.slotDate} : new[date] = old[date]
                /\ DOMAIN doctors' = DOMAIN doctors
                /\ \A d \in DOMAIN doctors \ {ap.docId} : doctors'[d] = doctors[d]]_vars

C5_Witness ==
    /\ CancelSucceeded(res)
    /\ res.req.appointmentId = "a1"
    /\ appointments["a1"].cancelled
    /\ doctors[1].slots_booked = [date1 |-> <<"t2">>, date2 |-> <<"t1">>]

\* The response `r` was sent after the `cancelled` write, without the slot
\* list having been rewritten: 404 "Doctor not found", or a 500 from the
\* doctor lookup or from the second write.
CancelledThenFailed(r) ==
    /\ r.op = "appointmentCancel"
    /\ r.trace.cancelWritten
    /\ r.status \in {404, 500}

\* C6: the two writes of a cancellation are independent.  The `cancelled`
\* write is committed before the doctor is read; when the doctor is not found
\* (404) or the lookup or second write throws (500) the appointment stays
\* cancelled and the doctor's slots_booked is left as it was, the slot still
\* in it.
C6_NoRollback ==
    /\ [](\A s \in Slots :
              (reqs[s].op = "appointmentCancel" /\ reqs[s].pc \in {"findDoctor", "slotWrite"})
                  => appointments[reqs[s].appointmentId].cancelled)
    /\ [][CancelledThenFailed(res')
             => /\ appointments'[res'.req.appointmentId].cancelled
                /\ appointments' = appointments
                /\ doctors' = doctors
                /\ (res'.status = 404
                       => appointments[res'.req.appointmentId].docId \notin DOMAIN doctors)]_vars

C6_Witness ==
    /\ CancelledThenFailed(res)
    /\ res.status = 500
    /\ res.req.appointmentId = "a2"
    /\ appointments["a2"].cancelled
    /\ NoneInFlight
    /\ cancelledOk = {}
    /\ \E i \in 1..Len(doctors[1].slots_booked["date1"]) :
           doctors[1].slots_booked["date1"][i] = appointments["a2"].slotTime

\* The first check a cancellation request fails, in the order of the source:
\* status and message, or <<0, "">> when it passes all four.
C7_Rejection(appts, req) ==
    IF ~Truthy(req.userId) \/ ~Truthy(req.appointmentId)
    THEN <<400, "Missing userId or appointmentId">>
    ELSE IF req.appointmentId \notin DOMAIN appts
    THEN <<404, "Appointment not found">>
    ELSE IF ~Truthy(appts[req.appointmentId].userId)
    THEN <<500, "Appointment data is corrupted">>
    ELSE IF appts[req.appointmentId].userId # req.userId
    THEN <<403, "Unauthorized Action">>
    ELSE <<0, "">>

\* C7: appointmentCancel rejects, changing no appointment and no doctor, a
\* request without userId or appointmentId (400), naming no appointment
\* (404), naming an appointment without userId (500), or made by another
\* user (403), checked in this order; `cancelled` is written only for a
\* request that passes all four.
C7_RejectionsChangeNothing ==
    /\ [](\A s \in Slots :
              (reqs[s].op = "appointmentCancel" /\ reqs[s].pc # "findAppointment")
                  => C7_Rejection(appointments,
                                  CancelReq(reqs[s].userId, reqs[s].appointmentId)) = <<0, "">>)
    /\ [][/\ (res'.op = "appointmentCancel" /\ ~res'.trace.cancelWritten)
                => /\ appointments' = appointments
                   /\ doctors' = doctors
                   /\ \/ <<res'.status, res'.body.message>> = <<500, "error.message">>
                      \/ <<res'.status, res'.body.message>>
                             = C7_Rejection(appointments, res'.req)
          /\ \A a \in DOMAIN appointments :
                 appointments'[a].cancelled # appointments[a].cancelled
                     => \E s \in Slots :
                            /\ reqs[s].op = "appointmentCancel"
                            /\ reqs[s].pc = "cancelWrite"
                            /\ reqs[s].appointmentId = a
                            /\ C7_Rejection(appointments, CancelReq(reqs[s].userId, a))
                                   = <<0, "">>]_vars

C7_Witness ==
    /\ res.op = "appointmentCancel"
    /\ res.status = 403
    /\ res.req = CancelReq("u2", "a1")
    /\ ~appointments["a1"].cancelled
    /\ appointments["a2"].cancelled

\* The slot of appointment a is still booked with its doctor.
StillBooked(a) ==
    LET ap == appointments[a]
    IN /\ ap.docId \in DOMAIN doctors
       /\ \E i \in 1..Len(bookedOn(slotsOf(doctors[ap.docId]), ap.slotDate)) :
              bookedOn(slotsOf(doctors[ap.docId]), ap.slotDate)[i] = ap.slotTime

\* C8: whatever the interleaving of two cancellations of different
\* appointments of one doctor, once both are answered with success both
\* appointments are cancelled and neither slot is booked, as when they run
\* one after the other.
C8_InterleavingsEqualSerial ==
    \A a, b \in cancelledOk :
        (/\ NoneInFlight
         /\ a # b
         /\ appointments[a].docId = appointments[b].docId)
            => /\ appointments[a].cancelled
               /\ appointments[b].cancelled
               /\ ~StillBooked(a)
               /\ ~StillBooked(b)

----------------------------------------------------------------------------
(* Properties: error responses *)

AdminOps ==
    {"addDoctor", "loginAdmin", "allDoctors", "appointmentsAdmin", "appointmentCancel",
     "adminDashboard"}

\* The response reports an error.
IsError(r) ==
    \/ r.status >= 400
    \/ "success" \in DOMAIN r.body /\ ~r.body.success
    \/ "error" \in DOMAIN r.body

\* {success: false, message: ...}
UniformShape(body) ==
    /\ "success" \in DOMAIN body
    /\ ~body.success
    /\ "message" \in DOMAIN body

----------------------------------------------------------------------------
(* Properties: addDoctor *)

\* What the request must carry for addDoctor to store a doctor.
Acceptable(req) ==
    /\ req.file
    /\ \A f \in DOMAIN req.body : ~missing(cleanQuotes(req.body[f]))
    /\ isEmail(cleanQuotes(req.body.email).v)
    /\ Len(cleanQuotes(req.body.password).v) >= MinPasswordLength
    /\ parseAddress(req.body.address) # "throws"

\* C10: addDoctor stores a doctor and answers 201 only for a request with an
\* image, nine non-empty fields, a valid email, a password of 8 characters or
\* more, an email no doctor has, and an address that parses; every 400 leaves
\* the doctors unchanged and has uploaded no image and deleted no local file.
C10_RejectionsHaveNoEffect ==
    [][res'.op = "addDoctor"
          => /\ doctors' # doctors => res'.status = 201
             /\ res'.status = 201
                    => /\ Acceptable(res'.req)
                       /\ ~emailExists(doctors, cleanQuotes(res'.req.body.email).v)
                       /\ Cardinality(DOMAIN doctors') = Cardinality(DOMAIN doctors) + 1
             /\ res'.status = 400
                    => /\ doctors' = doctors
                       /\ ~res'.trace.uploaded
                       /\ ~res'.trace.unlinked]_vars

\* C11: after any interleaving of addDoctor requests no two stored doctors
\* have the same email, also when two requests with the same email overlap
\* between findOne({email}) and save().
C11_NoDuplicateEmails ==
    \A d1, d2 \in DOMAIN doctors :
        d1 # d2 => doctors[d1].email # doctors[d2].email

----------------------------------------------------------------------------
(* Properties: the appointment flags *)

\* A cancellation of an appointment that an earlier cancellation has already
\* cancelled with success is in progress.
CancellingAgain ==
    \E s \in Slots : /\ reqs[s].op = "appointmentCancel"
                     /\ reqs[s].appointmentId \in cancelledOk

\* The step delivers a verified checkout.session.completed event for an
\* appointment that an earlier delivery has already marked as paid.
DeliveredAgain ==
    /\ res'.op = "webhook"
    /\ Verified(res')
    /\ res'.req.type = CheckoutCompleted
    /\ res'.req.metaId \in DOMAIN appointments
    /\ appointments[res'.req.metaId].payment

----------------------------------------------------------------------------
(* Properties: the admin front end *)

\* The call in progress (or the last one) is a cancelAppointment.
InCancel == admin.call.op = "cancelAppointment"

\* The last step gave the awaiting getAllAppointments of a cancelAppointment
\* the list of the server.
ListArrived ==
    /\ InCancel
    /\ admin.pc = "refresh:await"
    /\ admin'.pc = "idle"
    /\ succeeded(admin'.data)

\* C13: cancelAppointment sends no request for a falsy appointmentId; the GET
\* of getAllAppointments is sent only after the answer of the cancel request
\* and only if that answer has success true, and the appointments state then
\* becomes the list the server returns; after an answer with success false, or
\* a request that throws, the appointments state is as it was and no GET is
\* sent.
C13_RefreshOnlyAfterSuccess ==
    /\ [](InCancel =>
            /\ ~Truthy(admin.call.appointmentId)
                   => admin.sent = <<>> /\ admin.pc = "idle"
            /\ admin.sent \in {<<>>, <<"cancel-appointment">>,
                               <<"cancel-appointment", "appointments">>}
            /\ Len(admin.sent) = 2 => admin.reply = "success"
            /\ admin.reply = "none" => admin.appointments = admin.before
            /\ admin.reply \in {"failure", "threw"}
                   => /\ admin.sent = <<"cancel-appointment">>
                      /\ admin.appointments = admin.before
                      /\ admin.pc = "idle")
    /\ [][/\ ListArrived => admin'.appointments = admin'.data.appointments
          /\ (InCancel /\ admin'.call = admin.call /\ admin'.appointments # admin.appointments)
                 => ListArrived]_vars

C13_Witness ==
    /\ InCancel
    /\ admin.pc = "idle"
    /\ admin.reply = "success"
    /\ admin.sent = <<"cancel-appointment", "appointments">>
    /\ succeeded(admin.data)
    /\ admin.appointments = appointments
    /\ admin.appointments # admin.before
    /\ admin.before # <<>>
    /\ appointments["a1"].cancelled

====
